---- MODULE Spec2Model ----
(***************************************************************************)
(* Criteria -> MongoDB query translation of ts-mongo-criteria.             *)
(*                                                                         *)
(* JavaScript values are tagged records (field t is the tag), so that      *)
(* values of different JavaScript types can be compared and mixed:         *)
(*   undefined, NaN, numbers, strings, dates, arrays, plain objects, the   *)
(*   string JSON.stringify yields, and the documents the converter emits.  *)
(*                                                                         *)
(* Spec follows one Criteria through construction, convert() and list();   *)
(* RepoSpec follows concurrent list() calls on MongoRepository instances   *)
(* that share the index registry and the MongoClientFactory client.        *)
(***************************************************************************)
EXTENDS Integers, Sequences, FiniteSets, TLC

VARIABLES
  criteria,   \* the Criteria object last constructed, or Null
  result,     \* what convert(criteria) returned or threw, or Null
  error,      \* the error the construction threw, or Null
  args,       \* the arguments the construction was called with, or Null
  calls,      \* how many times convert was called on the Criteria
  matching,   \* how many documents of the collection match the predicate
  paginated   \* what list(criteria) returned or threw, or Null

\* the repositories of one process, under concurrent list() calls
VARIABLES
  indexRegistry,     \* MongoRepository.indexRegistry: a set of collection names
  client,            \* MongoClientFactory.client: a MongoClient, or NoClient
  mongoClients,      \* how many MongoClient objects were constructed
  connectedClients,  \* the MongoClient objects whose connect() resolved
  ensureRuns,        \* how many times ensureIndexes was invoked
  thisCriteria,      \* this.criteria of every repository instance
  thisQuery,         \* this.query of every repository instance
  tasks              \* the list() calls: where each stands, and its locals

coreVars == <<criteria, result, error, args, calls, matching, paginated>>
repoVars == <<indexRegistry, client, mongoClients, connectedClients, ensureRuns,
              thisCriteria, thisQuery, tasks>>
vars == <<criteria, result, error, args, calls, matching, paginated,
          indexRegistry, client, mongoClients, connectedClients, ensureRuns,
          thisCriteria, thisQuery, tasks>>

----------------------------------------------------------------------------
(* Bounds of the model *)

MaxLimit == 3
MaxPage == 3
MaxFilters == 2
MaxOrConds == 2
MaxCalls == 2
MaxDocs == 5
MaxTasks == 2

----------------------------------------------------------------------------
(* JavaScript values *)

Null == [t |-> "null"]
Undefined == [t |-> "undefined"]
NaN == [t |-> "nan"]
Num(n) == [t |-> "num", n |-> n]
Str(s) == [t |-> "str", s |-> s]
DateV(d) == [t |-> "date", d |-> d]
Bool(b) == [t |-> "bool", b |-> b]
Arr(items) == [t |-> "arr", items |-> items]
Obj(props) == [t |-> "obj", props |-> props]
\* the string JSON.stringify(x) returns: a string, never empty, that is not x
Json(x) == [t |-> "json", of |-> x]
\* a document (object literal) the converter builds: entries in insertion order
MDoc(entries) == [t |-> "doc", entries |-> entries]
Entry(k, v) == [k |-> k, v |-> v]
Doc1(k, v) == MDoc(<<Entry(k, v)>>)
\* a thrown Error with its message
Err(msg) == [t |-> "error", name |-> "Error", msg |-> msg]
\* a thrown InvalidArgumentError (a subclass of Error) with its message
InvalidArgumentError(msg) ==
  [t |-> "error", name |-> "InvalidArgumentError", msg |-> msg]
IsErr(x) == x.t = "error"

\* JavaScript truthiness, as used by !x and by x || y
Truthy(x) ==
  CASE x.t = "num" -> x.n # 0
    [] x.t = "str" -> x.s # ""
    [] x.t = "bool" -> x.b
    [] x.t \in {"undefined", "null", "nan"} -> FALSE
    [] OTHER -> TRUE

JsOr(x, d) == IF Truthy(x) THEN x ELSE d

\* a - b and a * b on JavaScript numbers (NaN is absorbing)
JsSub(a, b) == IF a.t = "num" /\ b.t = "num" THEN Num(a.n - b.n) ELSE NaN
JsMul(a, b) == IF a.t = "num" /\ b.t = "num" THEN Num(a.n * b.n) ELSE NaN
JsAdd(a, b) == IF a.t = "num" /\ b.t = "num" THEN Num(a.n + b.n) ELSE NaN
\* a < b on JavaScript numbers (false when either is NaN)
JsLt(a, b) == a.t = "num" /\ b.t = "num" /\ a.n < b.n
\* Number(x) for a number or undefined
Number(x) == IF x.t = "num" THEN x ELSE NaN

\* String(x) for the primitives of the model
ToStr(x) ==
  CASE x.t = "str" -> x.s
    [] x.t = "num" -> ToString(x.n)
    [] x.t = "nan" -> "NaN"
    [] x.t = "bool" -> IF x.b THEN "true" ELSE "false"
    [] x.t = "date" -> x.d
    [] x.t = "undefined" -> "undefined"
    [] OTHER -> "[object]"

\* "key" in obj, and obj.key
HasKey(x, key) == x.t = "obj" /\ key \in DOMAIN x.props
Get(x, key) == IF HasKey(x, key) THEN x.props[key] ELSE Undefined

RECURSIVE JoinFrom(_, _)
JoinFrom(items, i) ==
  IF i > Len(items) THEN ""
  ELSE IF i = Len(items) THEN ToStr(items[i])
  ELSE ToStr(items[i]) \o "," \o JoinFrom(items, i + 1)

\* Array.prototype.join(",")
Join(a) == Str(JoinFrom(a.items, 1))

----------------------------------------------------------------------------
(* Operator tokens *)

SimpleOperators == {"=", "!=", ">", "<", "CONTAINS", "NOT_CONTAINS", ">=", "<="}
CompositeOperators == {"BETWEEN", "OR"}
ListOperators == {"IN", "NOT_IN"}
Operator == SimpleOperators \cup CompositeOperators \cup ListOperators

----------------------------------------------------------------------------
(* Value objects *)

\* StringValueObject.ensureStringIsNotEmpty: typeof value !== "object" &&
\* value.length < 1; only the empty string has a length below 1
ensureStringIsNotEmpty(value) ==
  IF value.t = "str" /\ value.s = ""
  THEN InvalidArgumentError("String should have a length") ELSE Null

\* isOrConditionArray taking every array for a list of sub-conditions
isOrConditionArray_AnyArray(value) == value.t = "arr"

isOrConditionArray(value) ==
  /\ value.t = "arr"
  /\ Len(value.items) # 0
  /\ LET candidate == value.items[1]
     IN /\ candidate.t = "obj"
        /\ "field" \in DOMAIN candidate.props
        /\ "operator" \in DOMAIN candidate.props
        /\ "value" \in DOMAIN candidate.props

\* isBetweenObject content with one key of a pair
isBetweenObject_HalfPair(value) ==
  LET hasStartEnd == HasKey(value, "start") \/ HasKey(value, "end")
      hasStartDateEndDate == HasKey(value, "startDate") \/ HasKey(value, "endDate")
      hasFromTo == HasKey(value, "from") \/ HasKey(value, "to")
  IN value.t = "obj" /\ (hasStartEnd \/ hasStartDateEndDate \/ hasFromTo)

isBetweenObject(value) ==
  LET hasStartEnd == HasKey(value, "start") /\ HasKey(value, "end")
      hasStartDateEndDate == HasKey(value, "startDate") /\ HasKey(value, "endDate")
      hasFromTo == HasKey(value, "from") /\ HasKey(value, "to")
  IN value.t = "obj" /\ (hasStartEnd \/ hasStartDateEndDate \/ hasFromTo)

\* normalizeBetweenValue reading the from/to spelling the wrong way round
normalizeBetweenValue_FromToSwapped(value) ==
  IF HasKey(value, "start") /\ HasKey(value, "end")
  THEN [start |-> Get(value, "start"), end |-> Get(value, "end")]
  ELSE IF HasKey(value, "startDate") /\ HasKey(value, "endDate")
  THEN [start |-> Get(value, "startDate"), end |-> Get(value, "endDate")]
  ELSE [start |-> Get(value, "to"), end |-> Get(value, "from")]

\* normalizeBetweenValue looking for the spellings in the opposite order
normalizeBetweenValue_FromToFirst(value) ==
  IF HasKey(value, "from") /\ HasKey(value, "to")
  THEN [start |-> Get(value, "from"), end |-> Get(value, "to")]
  ELSE IF HasKey(value, "startDate") /\ HasKey(value, "endDate")
  THEN [start |-> Get(value, "startDate"), end |-> Get(value, "endDate")]
  ELSE [start |-> Get(value, "start"), end |-> Get(value, "end")]

normalizeBetweenValue(value) ==
  IF HasKey(value, "start") /\ HasKey(value, "end")
  THEN [start |-> Get(value, "start"), end |-> Get(value, "end")]
  ELSE IF HasKey(value, "startDate") /\ HasKey(value, "endDate")
  THEN [start |-> Get(value, "startDate"), end |-> Get(value, "endDate")]
  ELSE [start |-> Get(value, "from"), end |-> Get(value, "to")]

\* what the FilterValue constructor hands to super(): the canonical value
FilterValueCanonical(value) ==
  IF value.t = "arr" /\ isOrConditionArray(value) THEN Json(value)
  ELSE IF value.t = "arr" THEN Join(value)
  ELSE IF isBetweenObject(value) THEN Json(value)
  ELSE value

\* new FilterValue(value): the object, or the error its constructor throws
FilterValue(value) ==
  LET canonical == FilterValueCanonical(value)
  IN IF IsErr(ensureStringIsNotEmpty(canonical))
     THEN ensureStringIsNotEmpty(canonical)
     ELSE [t |-> "FilterValue", value |-> canonical, originalValue |-> value]

isOrConditions(fv) == isOrConditionArray(fv.originalValue)
isBetween(fv) == isBetweenObject(fv.originalValue)
asBetween(fv) ==
  IF isBetween(fv) THEN normalizeBetweenValue(fv.originalValue)
  ELSE Err("Value is not a BETWEEN structure")
asOrConditions(fv) ==
  IF isOrConditions(fv) THEN fv.originalValue.items
  ELSE Err("Value is not an OrCondition array")

\* isPrimitiveArray taking every array for a primitive one
isPrimitiveArray_AnyArray(fv) == fv.originalValue.t = "arr"

isPrimitiveArray(fv) == fv.originalValue.t = "arr" /\ ~isOrConditions(fv)
asPrimitiveArray(fv) ==
  IF isPrimitiveArray(fv) THEN fv.originalValue.items
  ELSE Err("Value is not an array of primitive values")

\* new FilterField(value)
FilterField(value) ==
  IF IsErr(ensureStringIsNotEmpty(value))
  THEN ensureStringIsNotEmpty(value)
  ELSE [t |-> "FilterField", value |-> value]

\* FilterOperator.fromValue accepting whatever token it is given
FilterOperatorFromValue_AnyToken(value) ==
  [t |-> "FilterOperator", value |-> ToStr(value)]

\* FilterOperator.fromValue(value)
FilterOperatorFromValue(value) ==
  IF value.t = "str" /\ value.s \in Operator
  THEN [t |-> "FilterOperator", value |-> value.s]
  ELSE InvalidArgumentError("The filter operator " \o ToStr(value) \o " is invalid")

\* the Map handed to Filter.fromValues; a missing key reads as undefined
FilterMap(field, operator, value) ==
  [field |-> field, operator |-> operator, value |-> value]

\* Filter.fromValues testing the value with !value, as it tests the field
FilterFromValues_FalsyValueInvalid(values) ==
  IF ~Truthy(values.field) \/ ~Truthy(values.operator) \/ ~Truthy(values.value)
  THEN InvalidArgumentError("The filter is invalid")
  ELSE LET field == FilterField(values.field)
           operator == FilterOperatorFromValue(values.operator)
           value == FilterValue(values.value)
       IN IF IsErr(field) THEN field
          ELSE IF IsErr(operator) THEN operator
          ELSE IF IsErr(value) THEN value
          ELSE [t |-> "Filter", field |-> field, operator |-> operator, value |-> value]

\* Filter.fromValues(values): the Filter, or the error thrown
FilterFromValues(values) ==
  IF ~Truthy(values.field) \/ ~Truthy(values.operator) \/ values.value = Undefined
  THEN InvalidArgumentError("The filter is invalid")
  ELSE LET field == FilterField(values.field)
           operator == FilterOperatorFromValue(values.operator)
           value == FilterValue(values.value)
       IN IF IsErr(field) THEN field
          ELSE IF IsErr(operator) THEN operator
          ELSE IF IsErr(value) THEN value
          ELSE [t |-> "Filter", field |-> field, operator |-> operator, value |-> value]

\* Filters.fromValues(filters): the Filters, or the first error thrown
FiltersFromValues(maps) ==
  LET built == [i \in 1..Len(maps) |-> FilterFromValues(maps[i])]
      failed == {i \in 1..Len(maps) : IsErr(built[i])}
  IN IF failed # {}
     THEN built[CHOOSE i \in failed : \A j \in failed : i <= j]
     ELSE [t |-> "Filters", filters |-> built]

----------------------------------------------------------------------------
(* Order *)

\* new OrderBy(value): the constructor hands the value to ValueObject and
\* checks nothing about its length
OrderBy(value) == [value |-> value]

NewOrder(orderBy, orderType) ==
  [t |-> "Order", orderBy |-> OrderBy(orderBy), orderType |-> [value |-> orderType]]

OrderNone == NewOrder("", "none")
OrderAsc(field) == NewOrder(field, "asc")
OrderDesc(field) == NewOrder(field, "desc")
\* Order.fromValues(field?, direction?): no field gives the none sentinel,
\* no direction gives ascending
OrderFromValues(field, direction) ==
  IF ~Truthy(field) THEN OrderNone
  ELSE NewOrder(field.s, IF direction = Undefined THEN "asc" ELSE direction.s)

hasOrder(order) == order.orderType.value # "none"
isAsc(orderType) == orderType.value = "asc"

----------------------------------------------------------------------------
(* Criteria *)

\* NewCriteria with the page taken as zero-based
NewCriteria_ZeroBasedPage(filters, order, limit, page) ==
  [t |-> "Criteria",
   filters |-> filters,
   order |-> order,
   limit |-> limit,
   currentPage |-> page,
   offset |-> IF page # Undefined /\ limit # Undefined
              THEN JsMul(page, limit)
              ELSE Undefined]

\* NewCriteria keeping the page only when a limit comes with it
NewCriteria_PageNeedsLimit(filters, order, limit, page) ==
  [t |-> "Criteria",
   filters |-> filters,
   order |-> order,
   limit |-> limit,
   currentPage |-> IF limit # Undefined THEN page ELSE Undefined,
   offset |-> IF page # Undefined /\ limit # Undefined
              THEN JsMul(JsSub(page, Num(1)), limit)
              ELSE Undefined]

\* new Criteria(filters, order, limit, offset): the fourth argument is the page
NewCriteria(filters, order, limit, page) ==
  [t |-> "Criteria",
   filters |-> filters,
   order |-> order,
   limit |-> limit,
   currentPage |-> page,
   offset |-> IF page # Undefined /\ limit # Undefined
              THEN JsMul(JsSub(page, Num(1)), limit)
              ELSE Undefined]

\* hasFilters asking for more than one filter
hasFilters_MoreThanOne(c) == Len(c.filters.filters) > 1

hasFilters(c) == Len(c.filters.filters) > 0

----------------------------------------------------------------------------
(* MongoCriteriaConverter *)

\* the computed key [x] of an object literal: x coerced to a string
FieldKey(filter) == ToStr(filter.field.value)

equalFilter(filter) == Doc1(FieldKey(filter), Doc1("$eq", filter.value.value))
notEqualFilter(filter) == Doc1(FieldKey(filter), Doc1("$ne", filter.value.value))
\* greaterThanFilter emitting the inclusive comparison
greaterThanFilter_Inclusive(filter) ==
  Doc1(FieldKey(filter), Doc1("$gte", filter.value.value))

greaterThanFilter(filter) == Doc1(FieldKey(filter), Doc1("$gt", filter.value.value))
greaterThanOrEqualFilter(filter) == Doc1(FieldKey(filter), Doc1("$gte", filter.value.value))
lowerThanOrEqualFilter(filter) == Doc1(FieldKey(filter), Doc1("$lte", filter.value.value))
lowerThanFilter(filter) == Doc1(FieldKey(filter), Doc1("$lt", filter.value.value))
containsFilter(filter) == Doc1(FieldKey(filter), Doc1("$regex", filter.value.value))
notContainsFilter(filter) ==
  Doc1(FieldKey(filter), Doc1("$not", Doc1("$regex", filter.value.value)))

\* the body of the conditions.map callback in orFilter: the switch on
\* condition.operator compares with === against the Operator members
\* the switch of orFilter falling back to equality for every other operator
OrConditionFragment_DefaultsToEqual(condition) ==
  LET operator == Get(condition, "operator")
      field == ToStr(Get(condition, "field"))
      value == Get(condition, "value")
  IN CASE operator = Str("CONTAINS") -> Doc1(field, Doc1("$regex", value))
       [] operator = Str("!=") -> Doc1(field, Doc1("$ne", value))
       [] operator = Str(">") -> Doc1(field, Doc1("$gt", value))
       [] operator = Str("<") -> Doc1(field, Doc1("$lt", value))
       [] operator = Str(">=") -> Doc1(field, Doc1("$gte", value))
       [] operator = Str("<=") -> Doc1(field, Doc1("$lte", value))
       [] operator = Str("NOT_CONTAINS") -> Doc1(field, Doc1("$not", Doc1("$regex", value)))
       [] OTHER -> Doc1(field, Doc1("$eq", value))

OrConditionFragment(condition) ==
  LET operator == Get(condition, "operator")
      field == ToStr(Get(condition, "field"))
      value == Get(condition, "value")
  IN CASE operator = Str("CONTAINS") -> Doc1(field, Doc1("$regex", value))
       [] operator = Str("=") -> Doc1(field, Doc1("$eq", value))
       [] operator = Str("!=") -> Doc1(field, Doc1("$ne", value))
       [] operator = Str(">") -> Doc1(field, Doc1("$gt", value))
       [] operator = Str("<") -> Doc1(field, Doc1("$lt", value))
       [] operator = Str(">=") -> Doc1(field, Doc1("$gte", value))
       [] operator = Str("<=") -> Doc1(field, Doc1("$lte", value))
       [] operator = Str("NOT_CONTAINS") -> Doc1(field, Doc1("$not", Doc1("$regex", value)))
       [] OTHER -> Err("Unsupported operator in OR condition: " \o ToStr(operator))

\* the first error of a sequence of results, or Null when none failed
FirstError(results) ==
  LET failed == {i \in 1..Len(results) : IsErr(results[i])}
  IN IF failed = {} THEN Null
     ELSE results[CHOOSE i \in failed : \A j \in failed : i <= j]

\* orFilter keying every sub-fragment by the outer filter's field
orFilter_OuterField(filter) ==
  IF ~isOrConditions(filter.value)
  THEN Err("OR operator requires an array of OrCondition objects")
  ELSE LET conditions == asOrConditions(filter.value)
           orConditions == [i \in 1..Len(conditions) |-> OrConditionFragment(conditions[i])]
       IN IF FirstError(orConditions) # Null THEN FirstError(orConditions)
          ELSE Doc1("$or",
                    Arr([i \in 1..Len(conditions) |->
                           Doc1(FieldKey(filter), orConditions[i].entries[1].v)]))

orFilter(filter) ==
  IF ~isOrConditions(filter.value)
  THEN Err("OR operator requires an array of OrCondition objects")
  ELSE LET conditions == asOrConditions(filter.value)
           orConditions == [i \in 1..Len(conditions) |-> OrConditionFragment(conditions[i])]
       IN IF FirstError(orConditions) # Null THEN FirstError(orConditions)
          ELSE Doc1("$or", Arr(orConditions))

betweenFilter(filter) ==
  IF ~isBetween(filter.value)
  THEN Err("BETWEEN operator requires an object with start and end values.")
  ELSE LET range == asBetween(filter.value)
       IN Doc1(FieldKey(filter),
               MDoc(<<Entry("$gte", range.start), Entry("$lte", range.end)>>))

\* the keys of the dispatch table built by the constructor
filterTransformers ==
  {"=", "!=", ">", "<", "CONTAINS", "NOT_CONTAINS", ">=", "<=", "BETWEEN", "OR"}

\* this.filterTransformers.get(operator)(filter)
Transform(operator, filter) ==
  CASE operator = "=" -> equalFilter(filter)
    [] operator = "!=" -> notEqualFilter(filter)
    [] operator = ">" -> greaterThanFilter(filter)
    [] operator = "<" -> lowerThanFilter(filter)
    [] operator = "CONTAINS" -> containsFilter(filter)
    [] operator = "NOT_CONTAINS" -> notContainsFilter(filter)
    [] operator = ">=" -> greaterThanOrEqualFilter(filter)
    [] operator = "<=" -> lowerThanOrEqualFilter(filter)
    [] operator = "BETWEEN" -> betweenFilter(filter)
    [] operator = "OR" -> orFilter(filter)

\* the index of key k among the entries, or 0
IndexOfKey(entries, k) ==
  IF \E i \in 1..Len(entries) : entries[i].k = k
  THEN CHOOSE i \in 1..Len(entries) : entries[i].k = k
  ELSE 0

\* an assignment that leaves a key alone once it is set
SetEntry_KeepsFirst(entries, e) ==
  IF IndexOfKey(entries, e.k) # 0 THEN entries ELSE Append(entries, e)

\* target[e.k] = e.v: an existing key keeps its place and takes the new value
SetEntry(entries, e) ==
  IF IndexOfKey(entries, e.k) # 0
  THEN [entries EXCEPT ![IndexOfKey(entries, e.k)] = e]
  ELSE Append(entries, e)

RECURSIVE AssignEntries(_, _, _)
AssignEntries(entries, source, i) ==
  IF i > Len(source) THEN entries
  ELSE AssignEntries(SetEntry(entries, source[i]), source, i + 1)

\* Object.assign keeping the last fragment only
AssignAll_LastOnly(entries, docs, i) ==
  IF docs = <<>> THEN entries ELSE docs[Len(docs)].entries

RECURSIVE AssignAll(_, _, _)
AssignAll(entries, docs, i) ==
  IF i > Len(docs) THEN entries
  ELSE AssignAll(AssignEntries(entries, docs[i].entries, 1), docs, i + 1)

\* Object.assign({}, ...docs)
ObjectAssign(docs) == MDoc(AssignAll(<<>>, docs, 1))

\* the body of the filters.filters.map callback in generateFilter
FilterFragment(filter) ==
  IF filter.operator.value \notin filterTransformers
  THEN Err("Unexpected operator value " \o filter.operator.value)
  ELSE Transform(filter.operator.value, filter)

\* generateFilter merging the fragments that did not fail
generateFilter_SkipsFailed(filters) ==
  LET filter == [i \in 1..Len(filters.filters) |-> FilterFragment(filters.filters[i])]
      kept == {i \in 1..Len(filter) : ~IsErr(filter[i])}
  IN ObjectAssign(IF kept = DOMAIN filter THEN filter
                  ELSE SubSeq(filter, 1, (CHOOSE i \in DOMAIN filter : i \notin kept) - 1))

generateFilter(filters) ==
  LET filter == [i \in 1..Len(filters.filters) |-> FilterFragment(filters.filters[i])]
  IN IF FirstError(filter) # Null THEN FirstError(filter)
     ELSE ObjectAssign(filter)

\* generateSort without the id alias
generateSort_NoAlias(order) ==
  Doc1(order.orderBy.value, IF isAsc(order.orderType) THEN Num(1) ELSE Num(-1))

generateSort(order) ==
  Doc1(IF order.orderBy.value = "id" THEN "_id" ELSE order.orderBy.value,
       IF isAsc(order.orderType) THEN Num(1) ELSE Num(-1))

\* convert with the page size of ten as the default limit
convert_DefaultLimit(c) ==
  LET filter == IF hasFilters(c) THEN generateFilter(c.filters) ELSE MDoc(<<>>)
  IN IF IsErr(filter) THEN filter
     ELSE [t |-> "MongoQuery",
           filter |-> filter,
           sort |-> IF hasOrder(c.order) THEN generateSort(c.order)
                    ELSE Doc1("_id", Num(-1)),
           skip |-> JsOr(c.offset, Num(0)),
           limit |-> JsOr(c.limit, Num(10))]

\* convert never handing out a skip below 0
convert_ClampsSkip(c) ==
  LET filter == IF hasFilters(c) THEN generateFilter(c.filters) ELSE MDoc(<<>>)
      skip == JsOr(c.offset, Num(0))
  IN IF IsErr(filter) THEN filter
     ELSE [t |-> "MongoQuery",
           filter |-> filter,
           sort |-> IF hasOrder(c.order) THEN generateSort(c.order)
                    ELSE Doc1("_id", Num(-1)),
           skip |-> IF JsLt(skip, Num(0)) THEN Num(0) ELSE skip,
           limit |-> JsOr(c.limit, Num(0))]

\* convert(criteria): the MongoQuery, or the error thrown
convert(c) ==
  LET filter == IF hasFilters(c) THEN generateFilter(c.filters) ELSE MDoc(<<>>)
  IN IF IsErr(filter) THEN filter
     ELSE [t |-> "MongoQuery",
           filter |-> filter,
           sort |-> IF hasOrder(c.order) THEN generateSort(c.order)
                    ELSE Doc1("_id", Num(-1)),
           skip |-> JsOr(c.offset, Num(0)),
           limit |-> JsOr(c.limit, Num(0))]

\* convert taking the filters off the Criteria as it compiles them
criteriaAfterConvert_ConsumesFilters(c) ==
  [c EXCEPT !.filters = [t |-> "Filters", filters |-> <<>>]]

\* the Criteria as convert leaves it: convert, generateFilter, generateSort and
\* the transformers read the Criteria, its Filters, Filter and FilterValue
\* objects through getters and assign to none of them
criteriaAfterConvert(c) == c

----------------------------------------------------------------------------
(* MongoRepository *)

PaginateDefaultLimit == 10
PaginateDefaultPage == 1

\* the values cursor.skip and cursor.limit are given that the driver takes as
\* they are: a skip of 0 or more and a limit of 0 (no limit) or more
DriverAccepts(query) ==
  /\ query.skip.t = "num" /\ query.skip.n >= 0
  /\ query.limit.t = "num" /\ query.limit.n >= 0

\* find(filter).sort(sort).skip(skip).limit(limit).toArray() over n matching
\* documents: how many documents come back
find(n, query) ==
  LET rest == IF n > query.skip.n THEN n - query.skip.n ELSE 0
  IN IF query.limit.n = 0 \/ rest < query.limit.n THEN rest ELSE query.limit.n

\* paginate with the next page offered up to and including the last document
paginate_Inclusive(c, documents, count) ==
  LET limit == JsOr(c.limit, Num(PaginateDefaultLimit))
      currentPage == JsOr(c.currentPage, Num(PaginateDefaultPage))
      hasNextPage == ~JsLt(Num(count), JsMul(currentPage, limit))
  IN IF documents = 0
     THEN [t |-> "Paginate", nextPag |-> Null, count |-> 0, results |-> 0]
     ELSE [t |-> "Paginate",
           nextPag |-> IF hasNextPage THEN JsAdd(Number(c.currentPage), Num(1))
                         ELSE Null,
           count |-> count,
           results |-> documents]

\* paginate(documents), with this.criteria = c and count what
\* countDocuments(this.query.filter) returned; results is documents.length
paginate(c, documents, count) ==
  LET limit == JsOr(c.limit, Num(PaginateDefaultLimit))
      currentPage == JsOr(c.currentPage, Num(PaginateDefaultPage))
      hasNextPage == JsLt(JsMul(currentPage, limit), Num(count))
  IN IF documents = 0
     THEN [t |-> "Paginate", nextPag |-> Null, count |-> 0, results |-> 0]
     ELSE [t |-> "Paginate",
           nextPag |-> IF hasNextPage THEN JsAdd(Number(c.currentPage), Num(1))
                         ELSE Null,
           count |-> count,
           results |-> documents]

\* list(criteria): searchByCriteria, then paginate; a throw of convert rejects
list(c, n) ==
  LET query == convert(c)
  IN IF IsErr(query) THEN query ELSE paginate(c, find(n, query), n)

\* MongoClientFactory.client before the first connection
NoClient == 0

\* the repository instances of the process, and collectionName() of each:
\* two instances of one repository class
Repos == {"r1", "r2"}
collectionName(r) == "users"

\* the collection: StoredDocuments documents, ActiveDocuments of them with
\* status "active"; countDocuments(filter) over it
StoredDocuments == 5
ActiveDocuments == 3
countDocuments(filter) ==
  IF filter = MDoc(<<>>) THEN StoredDocuments
  ELSE IF filter = Doc1("status", Doc1("$eq", Str("active"))) THEN ActiveDocuments
  ELSE 0

\* ensureIndexesOnce recording the name whether ensureIndexes resolved or not
indexRegistryAfterEnsure_Always(registry, key, resolved) == registry \cup {key}

\* MongoRepository.indexRegistry once the ensureIndexes of ensureIndexesOnce
\* has settled: the add is reached only if the await did not throw
indexRegistryAfterEnsure(registry, key, resolved) ==
  IF resolved THEN registry \cup {key} ELSE registry

\* a list() call that has not been made yet
IdleTask ==
  [pc |-> "idle", repo |-> "r1", criteria |-> Null, phase |-> "search",
   why |-> "ensure", mine |-> NoClient, received |-> {}, ranEnsure |-> FALSE,
   findQuery |-> Null, documents |-> 0, countFilter |-> Null,
   outcome |-> Null, afterFailedSetup |-> FALSE, registeredAtStart |-> FALSE]

----------------------------------------------------------------------------
(* The inputs the model draws from *)

SeqsUpTo(S, n) == UNION {[1..k -> S] : k \in 0..n}

Fields == {"status", "age"}
OrFields == {"name", "email"}
RangeBounds == {DateV("D1"), DateV("D2"), Num(18)}
ScalarValues ==
  {Str("active"), Str("a.*b"), Str(""), Num(18), Num(0), Bool(FALSE), DateV("D1")}
PrimitiveArrays == {Arr(<<>>), Arr(<<Str("P"), Str("F")>>)}

\* objects carrying a complete bound-key pair, halves of two pairs, one key,
\* or two complete pairs (of the first and third, of the second and third
\* spelling)
BetweenKeySets ==
  {{"start", "end"}, {"startDate", "endDate"}, {"from", "to"},
   {"start", "to"}, {"start"}, {"start", "end", "from", "to"},
   {"startDate", "endDate", "from", "to"}}
BetweenObjects == UNION {{Obj(f) : f \in [ks -> RangeBounds]} : ks \in BetweenKeySets}

OrConditions ==
  {Obj([field |-> Str(f), operator |-> Str(op), value |-> Str("john")]) :
     f \in OrFields, op \in SimpleOperators \cup {"BETWEEN", "OR", "IN"}}
\* the sub-conditions that longer lists are made of
OrListConditions ==
  {Obj([field |-> Str(f), operator |-> Str(op), value |-> Str("john")]) :
     f \in OrFields, op \in {"CONTAINS", ">", "BETWEEN"}}
OrConditionArrays ==
  {Arr(<<c>>) : c \in OrConditions}
  \cup {Arr(conds) : conds \in SeqsUpTo(OrListConditions, MaxOrConds) \ {<<>>}}
\* arrays whose first element is not a {field, operator, value} record
MalformedOrArrays ==
  {Arr(<<Obj([field |-> Str("name"), operator |-> Str("=")])>>),
   Arr(<<Obj([field |-> Str("name"), value |-> Str("john")])>>),
   Arr(<<Str("john"),
         Obj([field |-> Str("name"), operator |-> Str("="), value |-> Str("john")])>>)}

\* one-filter inputs: every operator token against every value shape
SingleMaps ==
  {FilterMap(Str(f), Str(op), v) :
     f \in Fields, op \in Operator \cup {"BETWEEN_X"},
     v \in ScalarValues \cup PrimitiveArrays}
  \cup {FilterMap(Str(f), Str(op), v) :
     f \in Fields, op \in {"BETWEEN", "OR", "="}, v \in BetweenObjects}
  \cup {FilterMap(Str("search"), Str(op), v) :
     op \in {"OR", "BETWEEN", "="}, v \in OrConditionArrays \cup MalformedOrArrays}
  \cup {FilterMap(Undefined, Str("="), Str("active")),
        FilterMap(Str(""), Str("="), Str("active")),
        FilterMap(Str("status"), Undefined, Str("active")),
        FilterMap(Str("status"), Str("="), Undefined),
        FilterMap(Str("status"), Str(""), Str("active")),
        FilterMap(Str("status"), Num(5), Str("active")),
        FilterMap(Undefined, Str("BETWEEN_X"), Str("active")),
        FilterMap(Str("status"), Str("BETWEEN_X"), Undefined)}

\* the filters combined into longer sequences
CoreMaps ==
  {FilterMap(Str(f), Str(p[1]), Str(p[2])) :
     f \in Fields, p \in {<<"=", "18">>, <<">=", "18">>, <<"<=", "65">>}}
  \cup {FilterMap(Str("search"), Str("OR"), Arr(<<c>>)) :
     c \in {Obj([field |-> Str(f), operator |-> Str("CONTAINS"), value |-> Str("john")]) :
              f \in OrFields}}
  \cup {FilterMap(Str("age"), Str("BETWEEN"),
                  Obj([start |-> DateV("D1"), end |-> DateV("D2")])),
        FilterMap(Str("search"), Str("OR"), Str("john")),
        FilterMap(Str("search"), Str("OR"),
                  Arr(<<Obj([field |-> Str("name"), operator |-> Str("CONTAINS"),
                             value |-> Str("john")]),
                        Obj([field |-> Str("email"), operator |-> Str("BETWEEN"),
                             value |-> Str("john")])>>)),
        FilterMap(Str("age"), Str("BETWEEN"), Str("18")),
        FilterMap(Str("status"), Str("IN"), Arr(<<Str("P"), Str("F")>>)),
        FilterMap(Str("status"), Str("BETWEEN_X"), Str("18")),
        FilterMap(Str("status"), Str("="), Str(""))}

\* what parseInt or Number hand over for a limit or a page: an integer or NaN
Limits == {Undefined, NaN} \cup {Num(n) : n \in -1..MaxLimit}
Pages == {Undefined, NaN} \cup {Num(n) : n \in -1..MaxPage}

OrderFields == {"id", "_id", "createdAt"}
Orders ==
  {OrderNone}
  \cup {OrderAsc(f) : f \in OrderFields \cup {""}}
  \cup {OrderDesc(f) : f \in OrderFields}
  \cup {OrderFromValues(f, d) :
          f \in {Undefined, Str("")} \cup {Str(g) : g \in OrderFields},
          d \in {Undefined, Str("asc"), Str("desc")}}

\* the arguments of new Criteria(Filters.fromValues(maps), order, limit, page)
CriteriaInputs ==
  {<<maps, OrderNone, Undefined, Undefined>> :
     maps \in SeqsUpTo(CoreMaps, MaxFilters) \cup {<<m>> : m \in SingleMaps}}
  \cup {<<maps, order, limit, page>> :
     maps \in {<<>>, <<FilterMap(Str("status"), Str("="), Str("active"))>>},
     order \in Orders, limit \in Limits, page \in Pages}

----------------------------------------------------------------------------
(* The state machine *)

Init ==
  /\ criteria = Null
  /\ result = Null
  /\ error = Null
  /\ args = Null
  /\ calls = 0
  /\ matching = 0
  /\ paginated = Null
  /\ indexRegistry = {}
  /\ client = NoClient
  /\ mongoClients = 0
  /\ connectedClients = {}
  /\ ensureRuns = 0
  /\ thisCriteria = [r \in Repos |-> Undefined]
  /\ thisQuery = [r \in Repos |-> Undefined]
  /\ tasks = [t \in 1..MaxTasks |-> IdleTask]

\* new Criteria(Filters.fromValues(maps), order, limit, page) returns; a
\* behaviour follows one Criteria from its construction on
Construct ==
  /\ criteria = Null /\ error = Null
  /\ \E in \in CriteriaInputs :
       LET filters == FiltersFromValues(in[1])
       IN /\ ~IsErr(filters)
          /\ criteria' = NewCriteria(filters, in[2], in[3], in[4])
          /\ args' = [maps |-> in[1], order |-> in[2], limit |-> in[3], page |-> in[4]]
  /\ result' = Null
  /\ error' = Null
  /\ calls' = 0
  /\ UNCHANGED <<matching, paginated>>
  /\ UNCHANGED repoVars

\* Filters.fromValues(maps) throws: no Criteria is built
ConstructThrows ==
  /\ criteria = Null /\ error = Null
  /\ \E in \in CriteriaInputs :
       LET filters == FiltersFromValues(in[1])
       IN /\ IsErr(filters)
          /\ error' = filters
          /\ args' = [maps |-> in[1], order |-> in[2], limit |-> in[3], page |-> in[4]]
  /\ criteria' = Null
  /\ result' = Null
  /\ calls' = 0
  /\ UNCHANGED <<matching, paginated>>
  /\ UNCHANGED repoVars

\* converter.convert(criteria) returns or throws; it may be called again.
\* A behaviour converts its Criteria, any number of times, or lists it.
Convert ==
  /\ criteria # Null
  /\ calls < MaxCalls
  /\ paginated = Null
  /\ result' = convert(criteria)
  /\ criteria' = criteriaAfterConvert(criteria)
  /\ calls' = calls + 1
  /\ UNCHANGED <<error, args, matching, paginated>>
  /\ UNCHANGED repoVars

\* repository.list(criteria) returns or throws, against a collection that
\* holds n documents matching the compiled predicate
List ==
  /\ criteria # Null
  /\ calls = 0
  /\ paginated = Null
  /\ IF IsErr(convert(criteria)) THEN TRUE ELSE DriverAccepts(convert(criteria))
  /\ \E n \in 0..MaxDocs :
       /\ matching' = n
       /\ paginated' = list(criteria, n)
  /\ result' = convert(criteria)
  /\ criteria' = criteriaAfterConvert(criteria)
  /\ calls' = calls + 1
  /\ UNCHANGED <<error, args>>
  /\ UNCHANGED repoVars

Next ==
  \/ Construct
  \/ ConstructThrows
  \/ Convert
  \/ List

Spec == Init /\ [][Next]_vars

----------------------------------------------------------------------------
(* Concurrent list() calls on the repositories of one process.  An async   *)
(* function runs without interruption from one await to the next; every    *)
(* await is a point where the other calls may run.                         *)

\* the criteria the concurrent calls list: two pages with different
\* predicates, limits and pages, and one that convert() rejects
RepoCriteriaInputs ==
  {<<(<<FilterMap(Str("status"), Str("="), Str("active"))>>), OrderNone, Num(2), Num(1)>>,
   <<(<<>>), OrderNone, Num(1), Num(5)>>,
   <<(<<FilterMap(Str("age"), Str("BETWEEN"), Str("18"))>>), OrderNone, Num(2), Num(1)>>}

EnsureIndexesError == Err("ensureIndexes failed")

\* MongoClientFactory.createClient() called by task: with no client yet, a
\* MongoClient is constructed and connect() awaited; else the client is
\* returned.  MONGO_URI is set and closeClient is not called: the behaviours
\* are those of one process between two closeClient calls.
CallCreateClient(t, task, why) ==
  IF client = NoClient
  THEN /\ mongoClients' = mongoClients + 1
       /\ tasks' = [tasks EXCEPT ![t] = [task EXCEPT !.pc = "connecting", !.why = why,
                                                     !.mine = mongoClients + 1]]
  ELSE /\ mongoClients' = mongoClients
       /\ tasks' = [tasks EXCEPT ![t] = [task EXCEPT !.pc = "awaitClient", !.why = why,
                                                     !.mine = client]]

\* this.collection() called by task: ensureIndexesOnce returns at once when
\* the name is registered, else asks collectionRaw() for the collection
CallCollection(t, task, phase) ==
  IF collectionName(task.repo) \in indexRegistry
  THEN /\ mongoClients' = mongoClients
       /\ tasks' = [tasks EXCEPT ![t] = [task EXCEPT !.pc = "awaitEnsured", !.phase = phase]]
  ELSE CallCreateClient(t, [task EXCEPT !.phase = phase], "ensure")

\* list(criteria) is called on repository r: searchByCriteria stores the
\* criteria and the compiled query on the instance (a throw of convert
\* rejects the call) and calls this.collection().  The instances are
\* interchangeable: the first call is made on "r1".
ListCall(t) ==
  /\ tasks[t].pc = "idle"
  /\ IF t = 1 THEN TRUE ELSE tasks[t - 1].pc # "idle"
  /\ \E r \in (IF t = 1 THEN {"r1"} ELSE Repos), in \in RepoCriteriaInputs :
       LET c == NewCriteria(FiltersFromValues(in[1]), in[2], in[3], in[4])
           query == convert(c)
           started == [IdleTask EXCEPT !.repo = r, !.criteria = c,
                         !.afterFailedSetup =
                            \E u \in 1..MaxTasks : tasks[u].outcome = EnsureIndexesError,
                         !.registeredAtStart = collectionName(r) \in indexRegistry]
       IN /\ thisCriteria' = [thisCriteria EXCEPT ![r] = c]
          /\ IF IsErr(query)
             THEN /\ thisQuery' = thisQuery
                  /\ mongoClients' = mongoClients
                  /\ tasks' = [tasks EXCEPT ![t] = [started EXCEPT !.pc = "done",
                                                                  !.outcome = query]]
             ELSE /\ thisQuery' = [thisQuery EXCEPT ![r] = query]
                  /\ CallCollection(t, started, "search")
  /\ UNCHANGED <<indexRegistry, client, connectedClients, ensureRuns>>
  /\ UNCHANGED coreVars

\* client.connect() resolves: createClient stores the client it built
ConnectDone(t) ==
  /\ tasks[t].pc = "connecting"
  /\ client' = tasks[t].mine
  /\ connectedClients' = connectedClients \cup {tasks[t].mine}
  /\ tasks' = [tasks EXCEPT ![t].pc = "awaitClient"]
  /\ UNCHANGED <<indexRegistry, mongoClients, ensureRuns, thisCriteria, thisQuery>>
  /\ UNCHANGED coreVars

\* ensureIndexesOnce has its collection and invokes ensureIndexes
RunEnsureIndexes(t) ==
  /\ tasks[t].pc = "awaitClient" /\ tasks[t].why = "ensure"
  /\ ensureRuns' = ensureRuns + 1
  /\ tasks' = [tasks EXCEPT ![t].pc = "ensuring", ![t].ranEnsure = TRUE,
                            ![t].received = @ \cup {tasks[t].mine}]
  /\ UNCHANGED <<indexRegistry, client, mongoClients, connectedClients,
                 thisCriteria, thisQuery>>
  /\ UNCHANGED coreVars

\* ensureIndexes resolves: the name is registered
EnsureDone(t) ==
  /\ tasks[t].pc = "ensuring"
  /\ indexRegistry' =
       indexRegistryAfterEnsure(indexRegistry, collectionName(tasks[t].repo), TRUE)
  /\ tasks' = [tasks EXCEPT ![t].pc = "awaitEnsured"]
  /\ UNCHANGED <<client, mongoClients, connectedClients, ensureRuns,
                 thisCriteria, thisQuery>>
  /\ UNCHANGED coreVars

\* ensureIndexes rejects: the rejection goes up through ensureIndexesOnce,
\* collection and searchByCriteria or paginate to the caller of list()
EnsureFails(t) ==
  /\ tasks[t].pc = "ensuring"
  /\ indexRegistry' =
       indexRegistryAfterEnsure(indexRegistry, collectionName(tasks[t].repo), FALSE)
  /\ tasks' = [tasks EXCEPT ![t].pc = "done", ![t].outcome = EnsureIndexesError]
  /\ UNCHANGED <<client, mongoClients, connectedClients, ensureRuns,
                 thisCriteria, thisQuery>>
  /\ UNCHANGED coreVars

\* ensureIndexesOnce has returned: collection() asks collectionRaw()
Ensured(t) ==
  /\ tasks[t].pc = "awaitEnsured"
  /\ CallCreateClient(t, tasks[t], "raw")
  /\ UNCHANGED <<indexRegistry, client, connectedClients, ensureRuns,
                 thisCriteria, thisQuery>>
  /\ UNCHANGED coreVars

\* searchByCriteria has its collection and issues find with this.query
IssueFind(t) ==
  /\ tasks[t].pc = "awaitClient" /\ tasks[t].why = "raw" /\ tasks[t].phase = "search"
  /\ tasks' = [tasks EXCEPT ![t].pc = "finding",
                            ![t].findQuery = thisQuery[tasks[t].repo],
                            ![t].received = @ \cup {tasks[t].mine}]
  /\ UNCHANGED <<indexRegistry, client, mongoClients, connectedClients, ensureRuns,
                 thisCriteria, thisQuery>>
  /\ UNCHANGED coreVars

\* toArray() resolves: list hands the documents to paginate, which calls
\* this.collection()
FindDone(t) ==
  /\ tasks[t].pc = "finding"
  /\ CallCollection(t,
        [tasks[t] EXCEPT !.documents =
           find(countDocuments(tasks[t].findQuery.filter), tasks[t].findQuery)],
        "paginate")
  /\ UNCHANGED <<indexRegistry, client, connectedClients, ensureRuns,
                 thisCriteria, thisQuery>>
  /\ UNCHANGED coreVars

\* paginate has its collection and issues countDocuments(this.query.filter)
IssueCount(t) ==
  /\ tasks[t].pc = "awaitClient" /\ tasks[t].why = "raw" /\ tasks[t].phase = "paginate"
  /\ tasks' = [tasks EXCEPT ![t].pc = "counting",
                            ![t].countFilter = thisQuery[tasks[t].repo].filter,
                            ![t].received = @ \cup {tasks[t].mine}]
  /\ UNCHANGED <<indexRegistry, client, mongoClients, connectedClients, ensureRuns,
                 thisCriteria, thisQuery>>
  /\ UNCHANGED coreVars

\* countDocuments resolves: paginate computes the page from this.criteria
\* and list() returns it
CountDone(t) ==
  /\ tasks[t].pc = "counting"
  /\ tasks' = [tasks EXCEPT ![t].pc = "done",
                            ![t].outcome =
                               paginate(thisCriteria[tasks[t].repo], tasks[t].documents,
                                        countDocuments(tasks[t].countFilter))]
  /\ UNCHANGED <<indexRegistry, client, mongoClients, connectedClients, ensureRuns,
                 thisCriteria, thisQuery>>
  /\ UNCHANGED coreVars

RepoNext ==
  \E t \in 1..MaxTasks :
    \/ ListCall(t)
    \/ ConnectDone(t)
    \/ RunEnsureIndexes(t)
    \/ EnsureDone(t)
    \/ EnsureFails(t)
    \/ Ensured(t)
    \/ IssueFind(t)
    \/ FindDone(t)
    \/ IssueCount(t)
    \/ CountDone(t)

RepoSpec == Init /\ [][RepoNext]_vars

----------------------------------------------------------------------------
(* Properties *)

Converted == result # Null /\ ~IsErr(result)
TheFilters == criteria.filters.filters

\* C1: a Criteria built with limit > 0 and page >= 1 has offset
\* (page - 1) * limit, page 1 gives offset 0, and convert() returns that
\* offset as skip and the limit as limit.
C1_OffsetDerivation ==
  (/\ criteria # Null
   /\ args.limit.t = "num" /\ args.page.t = "num"
   /\ args.limit.n > 0 /\ args.page.n >= 1)
  => /\ criteria.offset = Num((args.page.n - 1) * args.limit.n)
     /\ (args.page.n = 1 => criteria.offset = Num(0))
     /\ (Converted => result.skip = criteria.offset /\ result.limit = args.limit)

C1_Witness ==
  /\ criteria # Null /\ Converted
  /\ args.limit = Num(3) /\ args.page = Num(2)
  /\ result.skip = Num(3) /\ result.limit = Num(3)

\* C2: offset is undefined whenever the page or the limit is not given, while
\* currentPage holds the raw page argument and limit the raw limit argument.
C2_MissingPagination ==
  criteria # Null
  => /\ criteria.currentPage = args.page
     /\ criteria.limit = args.limit
     /\ (args.page = Undefined \/ args.limit = Undefined
           => criteria.offset = Undefined)

C2_Witness ==
  /\ criteria # Null
  /\ args.page = Num(2) /\ args.limit = Undefined
  /\ criteria.currentPage = Num(2) /\ criteria.offset = Undefined

\* C3 as stated: skip is criteria.offset when the offset is defined and 0
\* otherwise, limit is criteria.limit when the limit is defined and 0 otherwise.
C3_SkipLimitWhenDefined ==
  Converted
  => /\ result.skip = (IF criteria.offset # Undefined THEN criteria.offset ELSE Num(0))
     /\ result.limit = (IF criteria.limit # Undefined THEN criteria.limit ELSE Num(0))

\* C3 amended: skip is criteria.offset when the offset is defined and is not
\* NaN, and 0 when it is undefined or NaN; limit likewise.
C3_SkipLimitWhenNumber ==
  Converted
  => /\ result.skip = (IF criteria.offset \notin {Undefined, NaN}
                       THEN criteria.offset ELSE Num(0))
     /\ result.limit = (IF criteria.limit \notin {Undefined, NaN}
                        THEN criteria.limit ELSE Num(0))

C3_Witness ==
  /\ criteria # Null /\ Converted
  /\ criteria.limit = NaN /\ criteria.offset = NaN
  /\ result.skip = Num(0) /\ result.limit = Num(0)

\* C4: hasFilters() is true exactly when the sequence of filters is not empty;
\* convert() returns the empty predicate exactly when there are no filters, and
\* whenever it returns for a non-empty sequence the predicate has a key.
C4_EmptyPredicate ==
  criteria # Null
  => /\ (hasFilters(criteria) <=> (Len(args.maps) > 0))
     /\ ((result # Null /\ Len(args.maps) = 0)
           => (Converted /\ result.filter = MDoc(<<>>)))
     /\ ((Converted /\ Len(args.maps) > 0)
           => Len(result.filter.entries) >= 1)

C4_Witness ==
  /\ criteria # Null /\ Converted
  /\ Len(args.maps) = 1
  /\ hasFilters(criteria)
  /\ Len(result.filter.entries) = 1

\* the operation the claim C5 lists for a simple operator
C5_Operation(operator, v) ==
  CASE operator = "=" -> Doc1("$eq", v)
    [] operator = "!=" -> Doc1("$ne", v)
    [] operator = ">" -> Doc1("$gt", v)
    [] operator = ">=" -> Doc1("$gte", v)
    [] operator = "<" -> Doc1("$lt", v)
    [] operator = "<=" -> Doc1("$lte", v)
    [] operator = "CONTAINS" -> Doc1("$regex", v)
    [] operator = "NOT_CONTAINS" -> Doc1("$not", Doc1("$regex", v))

\* C5: one filter with field f, canonical value v and a simple operator
\* compiles to {f: operation(v)} with the operation of that operator, and a
\* scalar value is its own canonical value (nothing is escaped).
C5_SimpleOperators ==
  (/\ criteria # Null /\ Converted
   /\ Len(TheFilters) = 1
   /\ TheFilters[1].operator.value \in SimpleOperators)
  => /\ result.filter =
          Doc1(args.maps[1].field.s,
               C5_Operation(args.maps[1].operator.s, TheFilters[1].value.value))
     /\ (args.maps[1].value.t \in {"str", "num", "date"}
           => TheFilters[1].value.value = args.maps[1].value)

C5_Witness ==
  /\ criteria # Null /\ Converted
  /\ args.maps = <<FilterMap(Str("status"), Str("CONTAINS"), Str("a.*b"))>>
  /\ result.filter = Doc1("status", Doc1("$regex", Str("a.*b")))

Fragments == [i \in 1..Len(TheFilters) |-> FilterFragment(TheFilters[i])]
EntrySet(doc) == {doc.entries[i] : i \in 1..Len(doc.entries)}
\* equality of documents up to the order of their top-level keys
SameDoc(a, b) == EntrySet(a) = EntrySet(b) /\ Len(a.entries) = Len(b.entries)
ReorderingsOf(n) == {p \in [1..n -> 1..n] : \A i, j \in 1..n : p[i] = p[j] => i = j}

\* C6: when the fragments of the filters have pairwise distinct top-level
\* keys, the predicate holds every fragment under its key, and every
\* permutation of the filters compiles to the same predicate.
C6_DistinctKeysMerge ==
  (/\ criteria # Null /\ Converted
   /\ \A i, j \in 1..Len(TheFilters) :
        i # j => Fragments[i].entries[1].k # Fragments[j].entries[1].k)
  => /\ \A i \in 1..Len(TheFilters) : Fragments[i].entries[1] \in EntrySet(result.filter)
     /\ Len(result.filter.entries) = Len(TheFilters)
     /\ \A p \in ReorderingsOf(Len(TheFilters)) :
          SameDoc(generateFilter([t |-> "Filters",
                                  filters |-> [i \in 1..Len(TheFilters) |-> TheFilters[p[i]]]]),
                  result.filter)

C6_Witness ==
  /\ criteria # Null /\ Converted
  /\ Len(TheFilters) = 2
  /\ TheFilters[1].operator.value = "OR"
  /\ TheFilters[2].operator.value = ">="
  /\ Len(result.filter.entries) = 2
  /\ result.filter.entries[1].k = "$or"
  /\ result.filter.entries[2].k = "age"

\* C7: the predicate constrains the result by every filter of the sequence:
\* each filter's fragment is part of it, two range filters on one field too.
C7_EveryFilterConstrains ==
  (criteria # Null /\ Converted)
  => \A i \in 1..Len(TheFilters) : Fragments[i].entries[1] \in EntrySet(result.filter)

\* the three spellings of a range the claim C8 lists, as <<start key, end key>>
C8_Spellings == {<<"start", "end">>, <<"startDate", "endDate">>, <<"from", "to">>}

\* C8: a BETWEEN filter on field f whose value is {start: D1, end: D2},
\* {startDate: D1, endDate: D2} or {from: D1, to: D2} compiles to
\* {f: {$gte: D1, $lte: D2}} with the bounds themselves, not their serialization.
C8_BetweenNormalization ==
  \A sp \in C8_Spellings :
    (/\ criteria # Null /\ result # Null
     /\ Len(args.maps) = 1
     /\ args.maps[1].operator = Str("BETWEEN")
     /\ args.maps[1].value.t = "obj"
     /\ DOMAIN args.maps[1].value.props = {sp[1], sp[2]})
    => /\ Converted
       /\ result.filter =
            Doc1(args.maps[1].field.s,
                 MDoc(<<Entry("$gte", args.maps[1].value.props[sp[1]]),
                        Entry("$lte", args.maps[1].value.props[sp[2]])>>))

C8_Witness ==
  /\ criteria # Null /\ Converted
  /\ args.maps = <<FilterMap(Str("age"), Str("BETWEEN"),
                             Obj([from |-> DateV("D1"), to |-> DateV("D2")]))>>
  /\ result.filter =
       Doc1("age", MDoc(<<Entry("$gte", DateV("D1")), Entry("$lte", DateV("D2"))>>))

\* the fragment the claim C9 expects of one sub-condition
C9_SubFragment(c) ==
  Doc1(c.props.field.s, C5_Operation(c.props.operator.s, c.props.value))

\* C9: an OR filter over sub-conditions with simple operators compiles to
\* {$or: [s1, ..., sn]}, si built from the i-th sub-condition's own field,
\* operator and value, in the order of the list; the outer field is no key.
C9_OrFanOut ==
  (/\ criteria # Null /\ result # Null
   /\ Len(args.maps) = 1
   /\ args.maps[1].operator = Str("OR")
   /\ args.maps[1].value \in OrConditionArrays
   /\ \A i \in 1..Len(args.maps[1].value.items) :
        args.maps[1].value.items[i].props.operator.s \in SimpleOperators)
  => LET conds == args.maps[1].value.items
     IN /\ Converted
        /\ result.filter =
             Doc1("$or", Arr([i \in 1..Len(conds) |-> C9_SubFragment(conds[i])]))
        /\ Len(result.filter.entries[1].v.items) = Len(conds)
        /\ \A i \in 1..Len(result.filter.entries) :
             result.filter.entries[i].k # args.maps[1].field.s
        /\ \A i \in 1..Len(result.filter.entries[1].v.items) :
             result.filter.entries[1].v.items[i].entries[1].k # args.maps[1].field.s

C9_Witness ==
  /\ criteria # Null /\ Converted
  /\ Len(args.maps) = 1
  /\ args.maps[1].field = Str("search")
  /\ result.filter =
       Doc1("$or", Arr(<<Doc1("name", Doc1("$regex", Str("john"))),
                         Doc1("email", Doc1("$gt", Str("john")))>>))

\* C10: the sort is {_id: -1} for the none sentinel; otherwise it has the one
\* key of the order-by field, "id" replaced by "_id", with 1 for ascending
\* and -1 for descending.
C10_Sort ==
  (criteria # Null /\ Converted)
  => IF args.order = OrderNone
     THEN result.sort = Doc1("_id", Num(-1))
     ELSE /\ args.order.orderType.value \in {"asc", "desc"}
          /\ result.sort =
               Doc1(IF args.order.orderBy.value = "id" THEN "_id"
                    ELSE args.order.orderBy.value,
                    IF args.order.orderType.value = "asc" THEN Num(1) ELSE Num(-1))

C10_Witness ==
  /\ criteria # Null /\ Converted
  /\ args.order = OrderAsc("id")
  /\ result.sort = Doc1("_id", Num(1))

----------------------------------------------------------------------------
(* C11: an operator token that is not recognized *)

\* a token that is present and is not a member of the Operator enum
UnrecognizedToken(operator) ==
  operator # Undefined /\ ~(operator.t = "str" /\ operator.s \in Operator)

\* map i is the first one Filters.fromValues fails on, and its field, token
\* and value pass the presence check of Filter.fromValues
OperatorIsFirstDefect(maps, i) ==
  /\ \A j \in 1..(i - 1) : ~IsErr(FilterFromValues(maps[j]))
  /\ Truthy(maps[i].field)
  /\ Truthy(maps[i].operator)
  /\ maps[i].value # Undefined

\* C11: a construction whose filter maps hold an unrecognized operator token
\* throws an InvalidArgumentError and leaves no Criteria, so nothing can be
\* converted; when that token is the first defect Filters.fromValues meets,
\* the message is "The filter operator <token> is invalid".
C11_UnrecognizedOperator ==
  args # Null =>
    \A i \in 1..Len(args.maps) :
      UnrecognizedToken(args.maps[i].operator) =>
        /\ criteria = Null
        /\ result = Null
        /\ IsErr(error)
        /\ error.name = "InvalidArgumentError"
        /\ OperatorIsFirstDefect(args.maps, i) =>
             error.msg = "The filter operator " \o ToStr(args.maps[i].operator)
                           \o " is invalid"

C11_Witness ==
  /\ args # Null
  /\ Len(args.maps) = 2
  /\ args.maps[2].operator = Str("BETWEEN_X")
  /\ criteria = Null
  /\ error = InvalidArgumentError("The filter operator BETWEEN_X is invalid")

----------------------------------------------------------------------------
(* C12: Filter.fromValues on one map *)

\* the construction was handed exactly one filter map
OneMap == args # Null /\ Len(args.maps) = 1

\* a non-empty field name and a token of the Operator enum
WellFormedHead(m) ==
  /\ m.field.t = "str" /\ m.field.s # ""
  /\ m.operator.t = "str" /\ m.operator.s \in Operator

MissingKey(m) ==
  m.field = Undefined \/ m.operator = Undefined \/ m.value = Undefined

\* the empty string, or a primitive array that joins to the empty string
EmptyStringForm(v) ==
  \/ v = Str("")
  \/ v.t = "arr" /\ ~isOrConditionArray(v) /\ Join(v) = Str("")

\* C12 as stated: with a non-empty field and a recognized token
\* Filter.fromValues succeeds for every defined value, the empty string
\* included, and fails with "The filter is invalid" when a key is missing.
C12_EveryDefinedValue ==
  OneMap =>
    LET m == args.maps[1]
    IN /\ (WellFormedHead(m) /\ m.value # Undefined) =>
            (error = Null /\ criteria # Null)
       /\ MissingKey(m) => error = InvalidArgumentError("The filter is invalid")

\* C12 amended: with a non-empty field and a recognized token
\* Filter.fromValues succeeds for every defined value whose string form is
\* not empty (0 and false included) and keeps that value; it fails with
\* "String should have a length" for the empty string and for an array that
\* joins to it, and with "The filter is invalid" when a key is missing.
C12_EveryNonEmptyValue ==
  OneMap =>
    LET m == args.maps[1]
    IN /\ (WellFormedHead(m) /\ m.value # Undefined /\ ~EmptyStringForm(m.value)) =>
            /\ error = Null
            /\ criteria # Null
            /\ criteria.filters.filters[1].value.originalValue = m.value
       /\ (WellFormedHead(m) /\ EmptyStringForm(m.value)) =>
            error = InvalidArgumentError("String should have a length")
       /\ MissingKey(m) => error = InvalidArgumentError("The filter is invalid")

C12_Witness ==
  /\ OneMap
  /\ args.maps[1] \in {FilterMap(Str("status"), Str("="), Num(0)),
                        FilterMap(Str("status"), Str("="), Bool(FALSE))}
  /\ criteria # Null
  /\ ~Truthy(criteria.filters.filters[1].value.originalValue)

----------------------------------------------------------------------------
(* C13: convert called again *)

----------------------------------------------------------------------------
(* C14: IN and NOT_IN *)

\* C14 as stated: one filter with IN (NOT_IN) and a primitive array [a1..an]
\* on field f compiles to {f: {$in: [a1..an]}} ({f: {$nin: [a1..an]}}),
\* the elements in their order.
C14_InNotIn ==
  (OneMap /\ result # Null) =>
    LET m == args.maps[1]
    IN (/\ m.operator \in {Str("IN"), Str("NOT_IN")}
        /\ m.value.t = "arr"
        /\ ~isOrConditionArray(m.value)) =>
         /\ Converted
         /\ result.filter =
              Doc1(m.field.s,
                   Doc1(IF m.operator = Str("IN") THEN "$in" ELSE "$nin",
                        Arr(m.value.items)))

----------------------------------------------------------------------------
(* C15: the next page list() reports *)

\* list() returned a page holding at least one document
Listed == paginated # Null /\ ~IsErr(paginated) /\ paginated.results >= 1

----------------------------------------------------------------------------
(* C16: string value objects *)

\* C16 as stated: a field name, an order key or a filter value whose string
\* form is empty cannot be constructed (the construction throws an
\* InvalidArgumentError), so no Criteria holds one.
C16_NoEmptyStringForm ==
  /\ criteria # Null =>
       /\ hasOrder(criteria.order) => criteria.order.orderBy.value # ""
       /\ \A i \in 1..Len(TheFilters) :
            /\ ToStr(TheFilters[i].field.value) # ""
            /\ ToStr(TheFilters[i].value.value) # ""
  /\ (args # Null /\ hasOrder(args.order) /\ args.order.orderBy.value = "") =>
       (IsErr(error) /\ error.name = "InvalidArgumentError")

----------------------------------------------------------------------------
(* C17: the classification of a FilterValue *)

Classification(fv) == <<isOrConditions(fv), isBetween(fv), isPrimitiveArray(fv)>>
IsScalar(v) == v.t \in {"str", "num", "bool", "date"}

\* at most one predicate holds, none for a scalar, and each accessor returns
\* the value when its predicate is true and throws when it is false
ClassifiedOnce(fv) ==
  /\ Cardinality({k \in 1..3 : Classification(fv)[k]}) <= 1
  /\ IsScalar(fv.originalValue) => Classification(fv) = <<FALSE, FALSE, FALSE>>
  /\ IF isOrConditions(fv)
     THEN asOrConditions(fv) = fv.originalValue.items
     ELSE asOrConditions(fv) = Err("Value is not an OrCondition array")
  /\ IF isBetween(fv)
     THEN DOMAIN asBetween(fv) = {"start", "end"}
     ELSE asBetween(fv) = Err("Value is not a BETWEEN structure")
  /\ IF isPrimitiveArray(fv)
     THEN asPrimitiveArray(fv) = fv.originalValue.items
     ELSE asPrimitiveArray(fv) = Err("Value is not an array of primitive values")

\* a step keeps the classification of every FilterValue of the Criteria
ClassificationKept ==
  (criteria # Null /\ criteria' # Null) =>
    /\ Len(criteria'.filters.filters) = Len(TheFilters)
    /\ \A i \in 1..Len(TheFilters) :
         Classification(criteria'.filters.filters[i].value)
           = Classification(TheFilters[i].value)

\* C17: for every FilterValue at most one of isOrConditions, isBetween and
\* isPrimitiveArray is true (none for a scalar), each of asOrConditions,
\* asBetween and asPrimitiveArray throws exactly when its predicate is false,
\* and no step changes the classification.
C17_Classification ==
  /\ [](criteria # Null => \A i \in 1..Len(TheFilters) : ClassifiedOnce(TheFilters[i].value))
  /\ [][ClassificationKept]_vars

C17_Witness ==
  /\ criteria # Null
  /\ calls >= 1
  /\ Len(TheFilters) = 1
  /\ isOrConditions(TheFilters[1].value)
  /\ ~isBetween(TheFilters[1].value)
  /\ ~isPrimitiveArray(TheFilters[1].value)
  /\ asOrConditions(TheFilters[1].value) = TheFilters[1].value.originalValue.items

----------------------------------------------------------------------------
(* C18: fragments under one top-level key *)

\* the top-level key of the fragment of filter i
FragmentKey(i) == Fragments[i].entries[1].k
\* the last filter of the sequence whose fragment has the key k
LastWithKey(k) ==
  CHOOSE i \in 1..Len(TheFilters) :
    /\ FragmentKey(i) = k
    /\ \A j \in 1..Len(TheFilters) : FragmentKey(j) = k => j <= i

----------------------------------------------------------------------------
(* C19: BETWEEN with a value that is not a range *)

\* an object that has both keys of one of the three spellings
RangeShaped(v) ==
  /\ v.t = "obj"
  /\ \E sp \in C8_Spellings : sp[1] \in DOMAIN v.props /\ sp[2] \in DOMAIN v.props

BetweenError == Err("BETWEEN operator requires an object with start and end values.")

\* C19: converting a Criteria that holds a BETWEEN filter whose value is not
\* range-shaped throws; the error is the BETWEEN one when no earlier filter
\* of the sequence fails first; and every BETWEEN fragment convert returns
\* has both its $gte and its $lte bound.
C19_BetweenShape ==
  (criteria # Null /\ result # Null) =>
    \A i \in 1..Len(args.maps) :
      args.maps[i].operator = Str("BETWEEN") =>
        /\ ~RangeShaped(args.maps[i].value) =>
             /\ IsErr(result)
             /\ (\A j \in 1..(i - 1) : ~IsErr(Fragments[j])) => result = BetweenError
        /\ Converted =>
             /\ Fragments[i].entries[1].v.t = "doc"
             /\ \A k \in 1..2 :
                  Fragments[i].entries[1].v.entries[k].v # Undefined

C19_Witness ==
  /\ criteria # Null
  /\ args.maps = <<FilterMap(Str("age"), Str("BETWEEN"),
                             Obj([start |-> DateV("D1"), to |-> DateV("D2")]))>>
  /\ result = BetweenError

----------------------------------------------------------------------------
(* C20: OR with a value that is not a list of sub-conditions *)

\* an array whose first element is a record with field, operator and value
SubConditionList(v) ==
  /\ v.t = "arr"
  /\ Len(v.items) >= 1
  /\ v.items[1].t = "obj"
  /\ {"field", "operator", "value"} \subseteq DOMAIN v.items[1].props

OrError == Err("OR operator requires an array of OrCondition objects")

\* C20: converting a Criteria that holds an OR filter whose value is not a
\* list of sub-conditions throws; the error is the OR one when no earlier
\* filter of the sequence fails first; and a predicate convert returns
\* never has an empty $or list.
C20_OrShape ==
  (criteria # Null /\ result # Null) =>
    /\ \A i \in 1..Len(args.maps) :
         (args.maps[i].operator = Str("OR") /\ ~SubConditionList(args.maps[i].value)) =>
           /\ IsErr(result)
           /\ (\A j \in 1..(i - 1) : ~IsErr(Fragments[j])) => result = OrError
    /\ Converted =>
         \A e \in EntrySet(result.filter) :
           e.k = "$or" => (e.v.t = "arr" /\ Len(e.v.items) >= 1)

C20_Witness ==
  /\ criteria # Null
  /\ args.maps = <<FilterMap(Str("status"), Str("OR"), Arr(<<Str("P"), Str("F")>>))>>
  /\ result = OrError

----------------------------------------------------------------------------
(* C21: a sub-condition of OR with an operator that is not a simple one *)

\* the positions of the list v whose operator is none of the eight simple ones
UnsupportedAt(v) ==
  {k \in 1..Len(v.items) :
     Get(v.items[k], "operator") \notin {Str(op) : op \in SimpleOperators}}

FirstUnsupported(v) ==
  CHOOSE k \in UnsupportedAt(v) : \A m \in UnsupportedAt(v) : k <= m

\* C21: converting a Criteria that holds an OR filter with a sub-condition,
\* at any position, whose operator is none of the eight simple ones throws;
\* when no earlier filter of the sequence fails first the error is
\* "Unsupported operator in OR condition: <operator>" of the first such
\* sub-condition, and no predicate with the other sub-conditions is returned.
C21_UnsupportedInOr ==
  (criteria # Null /\ result # Null) =>
    \A i \in 1..Len(args.maps) :
      (/\ args.maps[i].operator = Str("OR")
       /\ SubConditionList(args.maps[i].value)
       /\ UnsupportedAt(args.maps[i].value) # {}) =>
        /\ IsErr(result)
        /\ (\A j \in 1..(i - 1) : ~IsErr(Fragments[j])) =>
             result = Err("Unsupported operator in OR condition: "
                          \o ToStr(Get(args.maps[i].value.items[
                                 FirstUnsupported(args.maps[i].value)], "operator")))

C21_Witness ==
  /\ criteria # Null
  /\ Len(args.maps) = 1
  /\ args.maps[1].operator = Str("OR")
  /\ SubConditionList(args.maps[1].value)
  /\ UnsupportedAt(args.maps[1].value) = {2}
  /\ result = Err("Unsupported operator in OR condition: BETWEEN")

----------------------------------------------------------------------------
(* C22: convert is all-or-nothing *)

\* the fragment of some filter of the sequence fails
SomeFragmentFails == \E i \in 1..Len(TheFilters) : IsErr(Fragments[i])

\* C22: when the fragment of any filter of the sequence fails, at any
\* position, convert throws the error and returns no query object, and
\* list rejects with it before any query runs; a query object is returned
\* only when every fragment was built.
C22_AllOrNothing ==
  criteria # Null =>
    /\ (result # Null /\ SomeFragmentFails) => result = FirstError(Fragments)
    /\ (paginated # Null /\ SomeFragmentFails) => paginated = FirstError(Fragments)
    /\ Converted => ~SomeFragmentFails

C22_Witness ==
  /\ criteria # Null
  /\ Len(TheFilters) = 2
  /\ ~IsErr(Fragments[1])
  /\ IsErr(Fragments[2])
  /\ result = Fragments[2]

----------------------------------------------------------------------------
(* C23: the Operator enum and the dispatch table *)

----------------------------------------------------------------------------
(* C25: pages below 1 *)

\* C25: a Criteria built with limit l > 0 and page p < 1 has the offset
\* (p - 1) * l, which is below 0, and convert returns that offset as skip.
C25_NoClamping ==
  (/\ criteria # Null
   /\ args.limit.t = "num" /\ args.page.t = "num"
   /\ args.limit.n > 0 /\ args.page.n < 1) =>
    /\ criteria.offset = Num((args.page.n - 1) * args.limit.n)
    /\ criteria.offset.n < 0
    /\ criteria.currentPage = args.page
    /\ Converted => result.skip = Num((args.page.n - 1) * args.limit.n)

C25_Witness ==
  /\ criteria # Null /\ Converted
  /\ args.limit = Num(2) /\ args.page = Num(0)
  /\ result.skip = Num(-2)

----------------------------------------------------------------------------
(* C28: the count list() reports *)

\* C28 as stated: whatever page is requested, an empty one past the last
\* included, the count list() returns is the number of documents matching
\* the predicate.
C28_CountIsTotal ==
  (paginated # Null /\ ~IsErr(paginated)) => paginated.count = matching

----------------------------------------------------------------------------
(* C29: a BETWEEN object with several bound-key pairs *)

\* the spellings of a range in the order normalization looks for them
C29_Precedence == <<(<<"start", "end">>), (<<"startDate", "endDate">>), (<<"from", "to">>)>>
C29_Complete(v, k) ==
  C29_Precedence[k][1] \in DOMAIN v.props /\ C29_Precedence[k][2] \in DOMAIN v.props

----------------------------------------------------------------------------
(* C24: the index setup of a collection under concurrent calls *)

\* the list() calls that ended because their ensureIndexes rejected
EnsureFailed == {t \in 1..MaxTasks : tasks[t].outcome = EnsureIndexesError}

\* C24 as stated, for the one collection name the instances share: whatever
\* the interleaving of the calls, ensureIndexes is invoked at most once,
\* invocations that rejected set aside.
C24_IndexSetupOnce == ensureRuns - Cardinality(EnsureFailed) <= 1

----------------------------------------------------------------------------
(* C26: the connection under concurrent createClient calls *)

\* C26 as stated: whatever the interleaving of the createClient calls, at
\* most one MongoClient is connected and every caller receives that client.
C26_OneClient ==
  /\ Cardinality(connectedClients) <= 1
  /\ Cardinality(UNION {tasks[t].received : t \in 1..MaxTasks}) <= 1

----------------------------------------------------------------------------
(* C27: the pagination metadata of concurrent list() calls *)

\* C27 as stated: the page a list() call returns is the one computed from
\* its own criteria: its own predicate, limit and page.
C27_OwnCriteria ==
  \A t \in 1..MaxTasks :
    (tasks[t].pc = "done" /\ ~IsErr(tasks[t].outcome))
    => tasks[t].outcome =
         list(tasks[t].criteria, countDocuments(convert(tasks[t].criteria).filter))

----------------------------------------------------------------------------
(* C30: ensureIndexes fails *)

\* the list() calls whose ensureIndexes has resolved
EnsureResolved ==
  {t \in 1..MaxTasks : /\ tasks[t].ranEnsure
                        /\ tasks[t].pc # "ensuring"
                        /\ tasks[t].outcome # EnsureIndexesError}

\* C30: a list() call whose ensureIndexes rejects ends with that error and
\* has run neither its find nor its count; the name of the collection is in
\* the registry only once the ensureIndexes of some call has resolved,
\* however many have rejected; and a call made while the name is not in the
\* registry invokes ensureIndexes itself before it runs a query.
C30_FailedSetupNotRecorded ==
  /\ \A t \in EnsureFailed :
       /\ tasks[t].pc = "done"
       /\ tasks[t].findQuery = Null /\ tasks[t].countFilter = Null
  /\ (EnsureResolved = {}) => indexRegistry = {}
  /\ \A t \in 1..MaxTasks :
       (tasks[t].findQuery # Null /\ ~tasks[t].registeredAtStart) => tasks[t].ranEnsure

C30_Witness ==
  /\ 1 \in EnsureFailed
  /\ tasks[2].afterFailedSetup
  /\ ~tasks[2].registeredAtStart
  /\ tasks[2].ranEnsure
  /\ tasks[2].pc = "done" /\ ~IsErr(tasks[2].outcome)
  /\ ensureRuns = 2
  /\ indexRegistry = {"users"}

====
